---- MODULE Spec2Model ----
(***************************************************************************)
(* Model of fowd/cdip.py: process_cdip_station, the batch driver that runs  *)
(* get_cdip_wave_records once per station file (in a process pool or       *)
(* sequentially), collects the results with handle_result, and streams the *)
(* per-file record chunks through generate_results into write_records.     *)
(*                                                                         *)
(* Units are numbered 1..num_inputs here (Python: 0..num_inputs-1); the    *)
(* canonical order is the order of sorted(glob.glob(...)).                 *)
(***************************************************************************)
EXTENDS Integers, Sequences, FiniteSets, TLC

\* ---------------------------------------------------------------- bounds
MaxUnits == 3          \* station files found by the glob: 0..MaxUnits
MaxTotalChunks == 2    \* chunks written to all chunk stores of one run
MaxChunkSize == 1      \* records in one chunk: 0..MaxChunkSize
MaxProc == 2           \* requested nproc: None or 0..MaxProc
MaxCores == 1          \* multiprocessing.cpu_count(): 1..MaxCores
MaxFlagCount == 1      \* count of one QC flag in a state summary
MaxQcUnits == 2        \* station files of the runs of InitUnits: 0..MaxQcUnits

VARIABLES
    is_dir,           \* os.path.isdir(station_folder)
    num_inputs,       \* len(station_files)
    requested,        \* the nproc argument: NoneInt or a number
    cpu_count,        \* multiprocessing.cpu_count()
    pc,               \* position of process_cdip_station
    nproc,            \* the local nproc after line 182
    pool_size,        \* max_workers of the ProcessPoolExecutor, 0: no pool
    status,           \* per unit: state of its do_work call / future
    result,           \* per unit: the pair do_work returned
    disk,             \* per unit: chunks in <out_folder>/<file>.waves.pkl
    computed,         \* per unit: number of times do_work started
    handled,          \* per unit: number of handle_result calls
    progress,         \* pbar.n of the 'Processing files' bar
    num_waves_total,  \* the nonlocal accumulator of handle_result
    result_files,     \* the list result_files
    warnings,         \* logger.warning / logger.warn calls so far
    error,            \* the exception process_cdip_station raised
    write_calls,      \* number of write_records invocations
    gen,              \* generate_results frame: unit, chunk, current_wave_id
    yielded,          \* chunks the generator has yielded, in order
    parsed,           \* per unit: how get_cdip_data ended in its do_work
    compute_calls,    \* per unit: arguments of its compute_wave_records calls
    statefiles,       \* per unit: num_flags_fired in <file>.state.pkl
    store_reads,      \* per unit: read_pickle_outfile_chunks calls on its store
    state_reads,      \* per unit: read_pickle_statefile calls on its state file
    qc_flags_fired,   \* the local qc_flags_fired of the last handle_result
    log               \* logger.info records of handle_result (lines 213-220)

vars == <<is_dir, num_inputs, requested, cpu_count, pc, nproc, pool_size,
          status, result, disk, computed, handled, progress,
          num_waves_total, result_files, warnings, error, write_calls,
          gen, yielded, parsed, compute_calls, statefiles, store_reads,
          state_reads, qc_flags_fired, log>>

\* ---------------------------------------------------------------- values
\* Python's None for the nproc argument (nproc=None)
NoneInt == [given |-> FALSE, n |-> 0]
SomeInt(n) == [given |-> TRUE, n |-> n]

\* Python's None for a path
None == [kind |-> "None", unit |-> 0]
\* os.path.join(out_folder, f'{filename}.waves.pkl'); basenames of the
\* files of one folder are distinct, so the path is determined by the unit
OutfilePath(i) == [kind |-> "waves.pkl", unit |-> i]
StatefilePath(i) == [kind |-> "state.pkl", unit |-> i]
NonePair == <<None, None>>
\* os.path.join(out_folder, f'fowd_cdip_{station_id}.qc.json'), one per station
QcOutfile == [kind |-> "qc.json", unit |-> 0]

NoError == [type |-> "none", unit |-> 0]
AssertionError == [type |-> "AssertionError", unit |-> 0]
ConfigError == [type |-> "RuntimeError", unit |-> 0]
UnitError(i) == [type |-> "UnitError", unit |-> i]

Units == 1..num_inputs

Min(a, b) == IF a <= b THEN a ELSE b

\* ---------------------------------------------------------------- chunks
\* A record chunk is a dict field -> array.  empty = TRUE is the dict {}
\* (falsy); otherwise wave_id_local and payload have the same length.
EmptyMapping == [empty |-> TRUE, wave_id_local |-> <<>>, payload |-> <<>>]

ChunkShapes ==
    {[empty |-> TRUE, size |-> 0]}
        \cup {[empty |-> FALSE, size |-> k] : k \in 0..MaxChunkSize}

StoreShapes(maxlen) == UNION {[1..n -> ChunkShapes] : n \in 0..maxlen}

\* The chunks compute_wave_records appends to the store of unit i: local
\* identifiers count the waves of the file, payload stands for every other
\* field of the chunk.
RECURSIVE BuildStore(_, _, _)
BuildStore(i, shapes, first) ==
    IF shapes = <<>> THEN <<>>
    ELSE LET s == shapes[1]
             c == IF s.empty THEN EmptyMapping
                  ELSE [empty |-> FALSE,
                        wave_id_local |-> [j \in 1..s.size |-> first + j - 1],
                        payload |-> [j \in 1..s.size |-> <<i, first + j - 1>>]]
         IN <<c>> \o BuildStore(i, Tail(shapes), first + s.size)

\* A state summary holds num_flags_fired: QC flag name -> count
FlagNames == {"a", "b"}
NoFlags == [f \in FlagNames |-> 0]
FlagCounts == [FlagNames -> 0..MaxFlagCount]

\* read_pickle_statefile(path)['num_flags_fired']; a path that names no
\* file gives nothing to read
ReadState(stf, path) ==
    IF path.unit \in DOMAIN stf THEN stf[path.unit] ELSE NoFlags

\* read_pickle_outfile_chunks(path): the chunks of the store, in store
\* order; a path that names no file gives nothing to read
ReadChunks(dsk, path) ==
    IF path.unit \in DOMAIN dsk THEN dsk[path.unit] ELSE <<>>

\* bool(record_chunk)
Truthy(chunk) == ~chunk.empty

\* len(record_chunk['wave_id_local'])
ChunkSize(chunk) == Len(chunk.wave_id_local)

\* ---------------------------------------------------------------- helpers of process_cdip_station
\* the check of line 176 left out
NoStationFilesUnchecked(n) == FALSE

\* line 176: num_inputs == 0
NoStationFiles(n) == n = 0

\* cpu_count() applied as a cap on an explicit nproc as well
EffectiveNprocCoreCapped(req, cores, n) ==
    Min(Min(IF req.given THEN req.n ELSE cores, n), cores)

\* lines 179-182: nproc defaults to cpu_count(), then min(nproc, num_inputs)
EffectiveNproc(req, cores, n) ==
    Min(IF req.given THEN req.n ELSE cores, n)

\* line 232: nproc > 1 selects the ProcessPoolExecutor branch
UsePool(np) == np > 1

\* the check of line 195 left out
IsSkippedNever(res) == FALSE

\* line 195: result_file is None or state_file is None
IsSkipped(res) == res[1] = None \/ res[2] = None

\* one counted for every chunk: num_waves += 1
CountWavesPerChunk(chunks) == Len(chunks)

\* lines 200-203: records of the truthy chunks of a store
RECURSIVE CountWaves(_)
CountWaves(chunks) ==
    IF chunks = <<>> THEN 0
    ELSE (IF Truthy(chunks[1]) THEN ChunkSize(chunks[1]) ELSE 0)
             + CountWaves(Tail(chunks))

\* the result stored in the first free slot, that is in completion order
StoreResultInCompletionOrder(rf, i, path) ==
    LET free == CHOOSE j \in 1..Len(rf) :
                    /\ rf[j] = None
                    /\ \A k \in 1..Len(rf) : k < j => rf[k] # None
    IN [rf EXCEPT ![free] = path]

\* result_files[i - 1] = result_file, the first unit wrapping to the last
StoreResultOffByOne(rf, i, path) ==
    [rf EXCEPT ![IF i > 1 THEN i - 1 ELSE Len(rf)] = path]

\* line 207: result_files[i] = result_file
StoreResult(rf, i, path) == [rf EXCEPT ![i] = path]

\* all(result_files) in place of any(result_files)
AllResultFiles(rf) == \A i \in 1..Len(rf) : rf[i] # None

\* line 260: any(result_files); a stored path is a non-empty string
AnyResultFiles(rf) == \E i \in 1..Len(rf) : rf[i] # None

SkipWarning(i) == [msg |-> "Processing skipped for file", unit |-> i]
NoOutputWarning == [msg |-> "Processed no files - no output to write", unit |-> 0]

\* the flag lines of the message left out
LogEntryWithoutFlags(i, num_waves, flags) ==
    [unit |-> i, num_waves |-> num_waves, flags |-> NoFlags]

\* lines 214-220: what is logged for a finished file: its wave count and
\* one line per QC flag of its state summary (the running count of processed
\* files in the same message is left out of the record)
LogEntry(i, num_waves, flags) ==
    [unit |-> i, num_waves |-> num_waves, flags |-> flags]

\* pbar.update(1) placed after the early return of a skipped unit
HandleResultUpdateAfterSkip(i, res, dsk, stf) ==
    /\ handled' = [handled EXCEPT ![i] = @ + 1]
    /\ IF IsSkipped(res)
       THEN /\ warnings' = warnings \cup {SkipWarning(i)}
            /\ UNCHANGED <<progress, num_waves_total, result_files,
                           store_reads, state_reads, qc_flags_fired, log>>
       ELSE /\ progress' = progress + 1
            /\ num_waves_total' = num_waves_total + CountWaves(ReadChunks(dsk, res[1]))
            /\ store_reads' = [store_reads EXCEPT ![res[1].unit] = @ + 1]
            /\ result_files' = StoreResult(result_files, i, res[1])
            /\ qc_flags_fired' = ReadState(stf, res[2])
            /\ state_reads' = [state_reads EXCEPT ![res[2].unit] = @ + 1]
            /\ log' = log \cup {LogEntry(i,
                                         CountWaves(ReadChunks(dsk, res[1])),
                                         qc_flags_fired')}
            /\ UNCHANGED warnings

\* lines 189-220: handle_result(i, result, pbar), reading the chunk stores
\* of dsk and the state files of stf
HandleResult(i, res, dsk, stf) ==
    /\ progress' = progress + 1
    /\ handled' = [handled EXCEPT ![i] = @ + 1]
    /\ IF IsSkipped(res)
       THEN /\ warnings' = warnings \cup {SkipWarning(i)}
            /\ UNCHANGED <<num_waves_total, result_files, store_reads,
                           state_reads, qc_flags_fired, log>>
       ELSE /\ num_waves_total' = num_waves_total + CountWaves(ReadChunks(dsk, res[1]))
            /\ store_reads' = [store_reads EXCEPT ![res[1].unit] = @ + 1]
            /\ result_files' = StoreResult(result_files, i, res[1])
            /\ qc_flags_fired' = ReadState(stf, res[2])
            /\ state_reads' = [state_reads EXCEPT ![res[2].unit] = @ + 1]
            /\ log' = log \cup {LogEntry(i,
                                         CountWaves(ReadChunks(dsk, res[1])),
                                         qc_flags_fired')}
            /\ UNCHANGED warnings

\* ---------------------------------------------------------------- get_cdip_wave_records
ChunksOnDisk ==
    LET RECURSIVE Total(_)
        Total(i) == IF i = 0 THEN 0 ELSE Len(disk[i]) + Total(i - 1)
    IN Total(num_inputs)

\* How one do_work call can go: get_cdip_data raises InvalidCDIPFile
\* (lines 91-94), or raises anything else, or returns a dataset; then
\* compute_wave_records raises, or writes the chunk store (shapes) and the
\* state summary (flags).
InvalidFile ==
    [parse |-> "InvalidCDIPFile", compute |-> "none",
     shapes |-> <<>>, flags |-> NoFlags]

ParseError ==
    [parse |-> "OtherError", compute |-> "none",
     shapes |-> <<>>, flags |-> NoFlags]

ComputeError ==
    [parse |-> "Dataset", compute |-> "error",
     shapes |-> <<>>, flags |-> NoFlags]

Computed(stores, flagsets) ==
    {[parse |-> "Dataset", compute |-> "ok", shapes |-> s, flags |-> f] :
        s \in stores, f \in flagsets}

\* the outcomes of Spec: a skip, a failure, or any store within the chunk
\* budget with no flag fired
Outcomes ==
    {InvalidFile, ComputeError}
        \cup Computed(StoreShapes(MaxTotalChunks - ChunksOnDisk), {NoFlags})

\* lines 153-156: the arguments of the compute_wave_records call of unit i
ComputeArgs(i) ==
    [outfile |-> OutfilePath(i), statefile |-> StatefilePath(i),
     qc_outfile |-> QcOutfile]

\* every exception of get_cdip_data caught as a skip (except Exception)
GetCdipWaveRecordsCatchAll(i, out) ==
    IF out.parse \in {"InvalidCDIPFile", "OtherError"}
    THEN [raised |-> FALSE, ret |-> NonePair, calls |-> <<>>]
    ELSE [raised |-> out.compute = "error",
          ret |-> <<OutfilePath(i), StatefilePath(i)>>,
          calls |-> <<[args |-> ComputeArgs(i),
                       raised |-> out.compute = "error"]>>]

\* lines 116-158: get_cdip_wave_records for unit i: whether it raises, the
\* pair it returns otherwise, and its calls of compute_wave_records, each
\* with its arguments and whether it raised
GetCdipWaveRecords(i, out) ==
    IF out.parse = "InvalidCDIPFile"
    THEN [raised |-> FALSE, ret |-> NonePair, calls |-> <<>>]
    ELSE IF out.parse = "OtherError"
    THEN [raised |-> TRUE, ret |-> NonePair, calls |-> <<>>]
    ELSE [raised |-> out.compute = "error",
          ret |-> <<OutfilePath(i), StatefilePath(i)>>,
          calls |-> <<[args |-> ComputeArgs(i),
                       raised |-> out.compute = "error"]>>]

\* lines 126 and 158: the value get_cdip_wave_records returns
ReturnValue(i, out) == GetCdipWaveRecords(i, out).ret

\* lines 153-156: what compute_wave_records leaves in the chunk store
DiskAfter(i, out) ==
    IF out.parse = "Dataset" /\ out.compute = "ok"
    THEN [disk EXCEPT ![i] = BuildStore(i, out.shapes, 0)]
    ELSE disk

\* lines 153-156: what compute_wave_records leaves in the state file
StatefilesAfter(i, out) ==
    IF out.parse = "Dataset" /\ out.compute = "ok"
    THEN [statefiles EXCEPT ![i] = out.flags]
    ELSE statefiles

\* ---------------------------------------------------------------- generate_results
\* break in place of continue at a None entry (line 272)
RECURSIVE GenSeekBreakAtNone(_, _, _, _)
GenSeekBreakAtNone(rf, dsk, u, c) ==
    IF u > Len(rf) THEN <<u, 1>>
    ELSE IF rf[u] = None THEN <<Len(rf) + 1, 1>>
    ELSE IF c > Len(ReadChunks(dsk, rf[u])) THEN GenSeekBreakAtNone(rf, dsk, u + 1, 1)
    ELSE IF ~Truthy(ReadChunks(dsk, rf[u])[c]) THEN GenSeekBreakAtNone(rf, dsk, u, c + 1)
    ELSE <<u, c>>

\* lines 270-276: advance to the next truthy chunk of a non-None entry;
\* a unit index past the list means the generator is exhausted
RECURSIVE GenSeek(_, _, _, _)
GenSeek(rf, dsk, u, c) ==
    IF u > Len(rf) THEN <<u, 1>>
    ELSE IF rf[u] = None THEN GenSeek(rf, dsk, u + 1, 1)
    ELSE IF c > Len(ReadChunks(dsk, rf[u])) THEN GenSeek(rf, dsk, u + 1, 1)
    ELSE IF ~Truthy(ReadChunks(dsk, rf[u])[c]) THEN GenSeek(rf, dsk, u, c + 1)
    ELSE <<u, c>>

\* the identifier range written into the other fields as well
RenumberEveryField(chunk, current) ==
    [chunk EXCEPT
        !.wave_id_local = [j \in 1..ChunkSize(chunk) |-> current + j - 1],
        !.payload = [j \in 1..ChunkSize(chunk) |->
                        <<chunk.payload[j][1], current + j - 1>>]]

\* lines 279-282: wave_id_local = np.arange(current, current + chunk_size)
Renumber(chunk, current) ==
    [chunk EXCEPT !.wave_id_local =
        [j \in 1..ChunkSize(chunk) |-> current + j - 1]]

\* current_wave_id never advanced
AdvanceWaveIdStale(current, chunk) == current

\* line 283: current_wave_id += chunk_size
AdvanceWaveId(current, chunk) == current + ChunkSize(chunk)

\* lines 265-287 run to exhaustion from frame (u, c, current)
RECURSIVE GenRun(_, _, _, _, _)
GenRun(rf, dsk, u, c, current) ==
    LET pos == GenSeek(rf, dsk, u, c)
    IN IF pos[1] > Len(rf) THEN <<>>
       ELSE LET chunk == ReadChunks(dsk, rf[pos[1]])[pos[2]]
            IN <<Renumber(chunk, current)>>
                   \o GenRun(rf, dsk, pos[1], pos[2] + 1,
                             AdvanceWaveId(current, chunk))

GenerateResults(rf, dsk) == GenRun(rf, dsk, 1, 1, 0)

\* ---------------------------------------------------------------- initial state
Init ==
    /\ is_dir \in BOOLEAN
    /\ num_inputs \in 0..MaxUnits
    /\ requested \in {NoneInt} \cup {SomeInt(n) : n \in 0..MaxProc}
    /\ cpu_count \in 1..MaxCores
    /\ pc = "start"
    /\ nproc = 0
    /\ pool_size = 0
    /\ status = [i \in 1..num_inputs |-> "new"]
    /\ result = [i \in 1..num_inputs |-> NonePair]
    /\ disk = [i \in 1..num_inputs |-> <<>>]
    /\ computed = [i \in 1..num_inputs |-> 0]
    /\ handled = [i \in 1..num_inputs |-> 0]
    /\ progress = 0
    /\ num_waves_total = 0
    /\ result_files = <<>>
    /\ warnings = {}
    /\ error = NoError
    /\ write_calls = 0
    /\ gen = [unit |-> 1, chunk |-> 1, current_wave_id |-> 0]
    /\ yielded = <<>>
    /\ parsed = [i \in 1..num_inputs |-> "none"]
    /\ compute_calls = [i \in 1..num_inputs |-> <<>>]
    /\ statefiles = [i \in 1..num_inputs |-> NoFlags]
    /\ store_reads = [i \in 0..num_inputs |-> 0]
    /\ state_reads = [i \in 0..num_inputs |-> 0]
    /\ qc_flags_fired = NoFlags
    /\ log = {}

\* ---------------------------------------------------------------- actions
\* lines 166-186 and 228-239: checks, nproc, result_files, and in the pool
\* branch the submission of every station file
Start ==
    /\ pc = "start"
    /\ IF ~is_dir
       THEN /\ pc' = "raised"
            /\ error' = AssertionError
            /\ UNCHANGED <<nproc, pool_size, status, result_files>>
       ELSE IF NoStationFiles(num_inputs)
       THEN /\ pc' = "raised"
            /\ error' = ConfigError
            /\ UNCHANGED <<nproc, pool_size, status, result_files>>
       ELSE /\ nproc' = EffectiveNproc(requested, cpu_count, num_inputs)
            /\ result_files' = [i \in Units |-> None]
            /\ IF UsePool(nproc')
               THEN /\ pool_size' = nproc'
                    /\ status' = [i \in Units |-> "queued"]
                    /\ pc' = "dispatch"
               ELSE /\ pc' = "sequential"
                    /\ UNCHANGED <<pool_size, status>>
            /\ UNCHANGED error
    /\ UNCHANGED <<is_dir, num_inputs, requested, cpu_count, result, disk,
                   computed, handled, progress, num_waves_total, warnings,
                   write_calls, gen, yielded, parsed, compute_calls, statefiles, store_reads,
                   state_reads, qc_flags_fired, log>>

Running == {i \in Units : status[i] = "running"}

\* a pool process takes the oldest queued work item (lines 234-239)
WorkerStart(i) ==
    /\ pc \in {"dispatch", "except"}
    /\ status[i] = "queued"
    /\ \A j \in Units : j < i => status[j] # "queued"
    /\ Cardinality(Running) < pool_size
    /\ status' = [status EXCEPT ![i] = "running"]
    /\ computed' = [computed EXCEPT ![i] = @ + 1]
    /\ UNCHANGED <<is_dir, num_inputs, requested, cpu_count, pc, nproc,
                   pool_size, result, disk, handled, progress,
                   num_waves_total, result_files, warnings, error,
                   write_calls, gen, yielded, parsed, compute_calls, statefiles, store_reads,
                   state_reads, qc_flags_fired, log>>

\* get_cdip_wave_records finishes in a pool process (lines 116-158) with
\* one of the outcomes outs
WorkerFinishWith(i, outs) ==
    /\ status[i] = "running"
    /\ \E out \in outs :
          LET r == GetCdipWaveRecords(i, out)
          IN /\ status' = [status EXCEPT
                              ![i] = IF r.raised THEN "raised" ELSE "returned"]
             /\ result' = IF r.raised THEN result
                          ELSE [result EXCEPT ![i] = r.ret]
             /\ parsed' = [parsed EXCEPT ![i] = out.parse]
             /\ compute_calls' = [compute_calls EXCEPT ![i] = @ \o r.calls]
             /\ disk' = DiskAfter(i, out)
             /\ statefiles' = StatefilesAfter(i, out)
    /\ UNCHANGED <<is_dir, num_inputs, requested, cpu_count, pc, nproc,
                   pool_size, computed, handled, progress, num_waves_total,
                   result_files, warnings, error, write_calls, gen, yielded,
                   store_reads, state_reads, qc_flags_fired, log>>

WorkerFinish(i) == WorkerFinishWith(i, Outcomes)

\* a finished future yielded again
AsCompletedRepeating(i) == status[i] \in {"returned", "raised"}

\* line 241: as_completed yields a finished future it has not yielded yet
AsCompleted(i) ==
    /\ status[i] \in {"returned", "raised"}
    /\ handled[i] = 0

\* lines 241-242 with future.result() returning: handle_result
Collect(i) ==
    /\ pc = "dispatch"
    /\ AsCompleted(i)
    /\ status[i] = "returned"
    /\ HandleResult(i, result[i], disk, statefiles)
    /\ pc' = IF \A j \in Units : handled'[j] > 0 THEN "collected"
             ELSE "dispatch"
    /\ UNCHANGED <<is_dir, num_inputs, requested, cpu_count, nproc,
                   pool_size, status, result, disk, computed, error,
                   write_calls, gen, yielded, parsed, compute_calls,
                   statefiles>>

\* as_completed given a timeout: a unit still running raises TimeoutError
CollectErrorOnTimeout(i) ==
    /\ pc = "dispatch"
    /\ \/ AsCompleted(i) /\ status[i] = "raised"
       \/ status[i] = "running"
    /\ pc' = "except"
    /\ error' = UnitError(i)
    /\ UNCHANGED <<is_dir, num_inputs, requested, cpu_count, nproc,
                   pool_size, status, result, disk, computed, handled,
                   progress, num_waves_total, result_files, warnings,
                   write_calls, gen, yielded, parsed, compute_calls,
                   statefiles, store_reads, state_reads, qc_flags_fired,
                   log>>

\* lines 242-244: future.result() re-raises the worker's exception
CollectError(i) ==
    /\ pc = "dispatch"
    /\ AsCompleted(i)
    /\ status[i] = "raised"
    /\ pc' = "except"
    /\ error' = UnitError(i)
    /\ UNCHANGED <<is_dir, num_inputs, requested, cpu_count, nproc,
                   pool_size, status, result, disk, computed, handled,
                   progress, num_waves_total, result_files, warnings,
                   write_calls, gen, yielded, parsed, compute_calls, statefiles, store_reads,
                   state_reads, qc_flags_fired, log>>

\* no process terminated
TerminateNothing(st) == st

\* lines 246-247: process.terminate() for every pool process
Terminate(st) ==
    [i \in DOMAIN st |-> IF st[i] = "running" THEN "terminated" ELSE st[i]]

\* the except block without its raise: the error is swallowed
AbortWorkersSwallow ==
    /\ pc = "except"
    /\ status' = [i \in DOMAIN status |->
                     IF status[i] = "running" THEN "terminated" ELSE status[i]]
    /\ pc' = "collected"
    /\ UNCHANGED <<is_dir, num_inputs, requested, cpu_count, nproc,
                   pool_size, result, disk, computed, handled, progress,
                   num_waves_total, result_files, warnings, error,
                   write_calls, gen, yielded, parsed, compute_calls, statefiles, store_reads,
                   state_reads, qc_flags_fired, log>>

\* lines 244-248 and 254-256: terminate the pool processes, re-raise
AbortWorkers ==
    /\ pc = "except"
    /\ status' = Terminate(status)
    /\ pc' = "raised"
    /\ UNCHANGED <<is_dir, num_inputs, requested, cpu_count, nproc,
                   pool_size, result, disk, computed, handled, progress,
                   num_waves_total, result_files, warnings, error,
                   write_calls, gen, yielded, parsed, compute_calls, statefiles, store_reads,
                   state_reads, qc_flags_fired, log>>

\* lines 251-252: one iteration of the sequential loop, do_work then
\* handle_result; map() calls do_work in list order; the call for unit i
\* ends with one of the outcomes outs[i]
SeqStepWith(outs) ==
    /\ pc = "sequential"
    /\ IF \A j \in Units : status[j] # "new"
       THEN /\ pc' = "collected"
            /\ UNCHANGED <<status, result, disk, computed, handled, progress,
                           num_waves_total, result_files, warnings, error,
                           parsed, compute_calls, statefiles, store_reads,
                           state_reads, qc_flags_fired, log>>
       ELSE LET i == CHOOSE j \in Units :
                        /\ status[j] = "new"
                        /\ \A k \in Units : k < j => status[k] # "new"
            IN \E out \in outs[i] :
                  LET r == GetCdipWaveRecords(i, out)
                  IN /\ computed' = [computed EXCEPT ![i] = @ + 1]
                     /\ parsed' = [parsed EXCEPT ![i] = out.parse]
                     /\ compute_calls' = [compute_calls EXCEPT
                                             ![i] = @ \o r.calls]
                     /\ disk' = DiskAfter(i, out)
                     /\ statefiles' = StatefilesAfter(i, out)
                     /\ IF r.raised
                        THEN /\ status' = [status EXCEPT ![i] = "raised"]
                             /\ error' = UnitError(i)
                             /\ pc' = "raised"
                             /\ UNCHANGED <<result, handled, progress,
                                            num_waves_total, result_files,
                                            warnings, store_reads,
                                            state_reads, qc_flags_fired, log>>
                        ELSE /\ status' = [status EXCEPT ![i] = "returned"]
                             /\ result' = [result EXCEPT ![i] = r.ret]
                             /\ HandleResult(i, r.ret, disk', statefiles')
                             /\ pc' = IF i = num_inputs THEN "collected"
                                      ELSE "sequential"
                             /\ UNCHANGED error
    /\ UNCHANGED <<is_dir, num_inputs, requested, cpu_count, nproc,
                   pool_size, write_calls, gen, yielded>>

SeqStep == SeqStepWith([i \in Units |-> Outcomes])

\* lines 258-297: the empty-result return, or the call of write_records
\* with a fresh generator
Finish ==
    /\ pc = "collected"
    /\ IF ~AnyResultFiles(result_files)
       THEN /\ warnings' = warnings \cup {NoOutputWarning}
            /\ pc' = "done"
            /\ UNCHANGED <<write_calls, gen>>
       ELSE /\ write_calls' = write_calls + 1
            /\ gen' = [unit |-> 1, chunk |-> 1, current_wave_id |-> 0]
            /\ pc' = "writing"
            /\ UNCHANGED warnings
    /\ UNCHANGED <<is_dir, num_inputs, requested, cpu_count, nproc,
                   pool_size, status, result, disk, computed, handled,
                   progress, num_waves_total, result_files, error, yielded,
                   parsed, compute_calls, statefiles, store_reads,
                   state_reads, qc_flags_fired, log>>

\* the store opened anew for every chunk asked for
OpenedPerChunk(rf, g, pos) ==
    {rf[u].unit : u \in {v \in 1..Len(rf) :
                            /\ rf[v] # None
                            /\ v <= pos[1]
                            /\ g.unit <= v}}

\* line 274: the stores the generator opens on its way from its frame g to
\* position pos: the non-None entries it enters
Opened(rf, g, pos) ==
    {rf[u].unit : u \in {v \in 1..Len(rf) :
                            /\ rf[v] # None
                            /\ v <= pos[1]
                            /\ \/ g.unit < v
                               \/ g.unit = v /\ g.chunk = 1}}

CountOpened(reads, opened) ==
    [i \in DOMAIN reads |-> IF i \in opened THEN reads[i] + 1 ELSE reads[i]]

\* write_records asks the generator for its next chunk (lines 270-285)
GenYield ==
    /\ pc = "writing"
    /\ LET pos == GenSeek(result_files, disk, gen.unit, gen.chunk)
       IN /\ pos[1] <= Len(result_files)
          /\ store_reads' = CountOpened(store_reads,
                                        Opened(result_files, gen, pos))
          /\ LET chunk == ReadChunks(disk, result_files[pos[1]])[pos[2]]
             IN /\ yielded' = Append(yielded,
                                     Renumber(chunk, gen.current_wave_id))
                /\ gen' = [unit |-> pos[1], chunk |-> pos[2] + 1,
                           current_wave_id |->
                               AdvanceWaveId(gen.current_wave_id, chunk)]
    /\ UNCHANGED <<is_dir, num_inputs, requested, cpu_count, pc, nproc,
                   pool_size, status, result, disk, computed, handled,
                   progress, num_waves_total, result_files, warnings, error,
                   write_calls, parsed, compute_calls, statefiles,
                   state_reads, qc_flags_fired, log>>

\* the generator is exhausted and write_records returns (lines 270, 294-297)
GenStop ==
    /\ pc = "writing"
    /\ LET pos == GenSeek(result_files, disk, gen.unit, gen.chunk)
       IN /\ pos[1] > Len(result_files)
          /\ store_reads' = CountOpened(store_reads,
                                        Opened(result_files, gen, pos))
          /\ gen' = [gen EXCEPT !.unit = pos[1], !.chunk = pos[2]]
    /\ pc' = "done"
    /\ UNCHANGED <<is_dir, num_inputs, requested, cpu_count, nproc,
                   pool_size, status, result, disk, computed, handled,
                   progress, num_waves_total, result_files, warnings, error,
                   write_calls, yielded, parsed, compute_calls, statefiles,
                   state_reads, qc_flags_fired, log>>

Next ==
    \/ Start
    \/ \E i \in Units : WorkerStart(i)
    \/ \E i \in Units : WorkerFinish(i)
    \/ \E i \in Units : Collect(i)
    \/ \E i \in Units : CollectError(i)
    \/ AbortWorkers
    \/ SeqStep
    \/ Finish
    \/ GenYield
    \/ GenStop

Spec == Init /\ [][Next]_vars

\* runs of at most MaxQcUnits station files
InitUnits == Init /\ num_inputs <= MaxQcUnits

\* Every started computation returns or raises, every pool process takes
\* the work queued for it, and the scheduler runs on: a step that stays
\* possible is taken.
SpecFair == InitUnits /\ [][Next]_vars /\ WF_vars(Next)

\* ---------------------------------------------------------------- runs with the three-file scenario
\* The stores of a run of three files: the first holds chunks of 2, 0 and 3
\* records, the 0 being an empty mapping or zero-length fields; the second
\* file is invalid; the third holds one chunk of 1 record.
ScenarioOutcomes ==
    <<Computed({<<[empty |-> FALSE, size |-> 2], zero,
                  [empty |-> FALSE, size |-> 3]>> :
                    zero \in {[empty |-> TRUE, size |-> 0],
                              [empty |-> FALSE, size |-> 0]}},
               {NoFlags}),
      {InvalidFile},
      Computed({<<[empty |-> FALSE, size |-> 1]>>}, {NoFlags})>>

\* the outcomes of Spec, and in a run of three files those of the scenario
TotalsOutcomes(i) ==
    Outcomes \cup (IF num_inputs = Len(ScenarioOutcomes)
                   THEN ScenarioOutcomes[i] ELSE {})

WorkerFinishTotals(i) == WorkerFinishWith(i, TotalsOutcomes(i))

SeqStepTotals == SeqStepWith([i \in Units |-> TotalsOutcomes(i)])

NextTotals ==
    \/ Start
    \/ \E i \in Units : WorkerStart(i)
    \/ \E i \in Units : WorkerFinishTotals(i)
    \/ \E i \in Units : Collect(i)
    \/ \E i \in Units : CollectError(i)
    \/ AbortWorkers
    \/ SeqStepTotals
    \/ Finish
    \/ GenYield
    \/ GenStop

SpecTotals == Init /\ [][NextTotals]_vars

\* ---------------------------------------------------------------- runs with QC flags
\* Every way a unit can end, with any flag counts in the state summary of a
\* unit that returns; the store of such a unit is one full chunk.
UnitOutcomes ==
    {InvalidFile, ParseError, ComputeError}
        \cup Computed({<<[empty |-> FALSE, size |-> MaxChunkSize]>>},
                      FlagCounts)

WorkerFinishUnits(i) == WorkerFinishWith(i, UnitOutcomes)

SeqStepUnits == SeqStepWith([i \in Units |-> UnitOutcomes])

NextUnits ==
    \/ Start
    \/ \E i \in Units : WorkerStart(i)
    \/ \E i \in Units : WorkerFinishUnits(i)
    \/ \E i \in Units : Collect(i)
    \/ \E i \in Units : CollectError(i)
    \/ AbortWorkers
    \/ SeqStepUnits
    \/ Finish
    \/ GenYield
    \/ GenStop

SpecUnits == InitUnits /\ [][NextUnits]_vars

\* ---------------------------------------------------------------- properties
RECURSIVE Flatten(_)
Flatten(seqs) ==
    IF seqs = <<>> THEN <<>> ELSE seqs[1] \o Flatten(Tail(seqs))

\* the identifier fields of the yielded chunks, concatenated
YieldedIds == Flatten([k \in 1..Len(yielded) |-> yielded[k].wave_id_local])

Skipped(i) == status[i] = "returned" /\ result[i] = NonePair
Produced(i) == status[i] = "returned" /\ result[i] # NonePair

\* sum of all chunk sizes of all non-skipped units
RECURSIVE StoreRecords(_)
StoreRecords(chunks) ==
    IF chunks = <<>> THEN 0
    ELSE Len(chunks[1].payload) + StoreRecords(Tail(chunks))

RECURSIVE RecordsUpTo(_)
RecordsUpTo(i) ==
    IF i = 0 THEN 0
    ELSE (IF Produced(i) THEN StoreRecords(disk[i]) ELSE 0) + RecordsUpTo(i - 1)

TotalRecords == RecordsUpTo(num_inputs)

Completed == pc \in {"collected", "writing", "done"}

\* C1: the identifiers yielded by generate_results, concatenated, are at
\* every moment 0, 1, 2, ... without gap or repeat, and when the run is done
\* they are exactly 0..total_records-1, total_records being the sum of all
\* chunk sizes of all non-skipped units.
C1_GlobalIdsContiguous ==
    /\ YieldedIds = [j \in 1..Len(YieldedIds) |-> j - 1]
    /\ pc = "done" => Len(YieldedIds) = TotalRecords

C1_Witness ==
    /\ pc = "done"
    /\ num_inputs = 3
    /\ Skipped(2)
    /\ Produced(1)
    /\ disk[1] = <<>>
    /\ Len(yielded) = 2
    /\ YieldedIds = <<0, 1>>

\* the stream fixed by the units' outputs alone: the truthy chunks of the
\* non-skipped units in canonical order, renumbered by the records before
RECURSIVE TruthyChunks(_)
TruthyChunks(chunks) ==
    IF chunks = <<>> THEN <<>>
    ELSE (IF chunks[1].empty THEN <<>> ELSE <<chunks[1]>>)
             \o TruthyChunks(Tail(chunks))

CanonicalChunks ==
    Flatten([i \in 1..num_inputs |->
                IF Produced(i) THEN TruthyChunks(disk[i]) ELSE <<>>])

RECURSIVE RecordsBefore(_, _)
RecordsBefore(chunks, k) ==
    IF k <= 1 THEN 0
    ELSE Len(chunks[k - 1].payload) + RecordsBefore(chunks, k - 1)

CanonicalStream ==
    [k \in 1..Len(CanonicalChunks) |->
        [empty |-> FALSE,
         wave_id_local |->
             [j \in 1..Len(CanonicalChunks[k].payload) |->
                 RecordsBefore(CanonicalChunks, k) + j - 1],
         payload |-> CanonicalChunks[k].payload]]

\* C2: the stream handed to write_records is a function of the units'
\* outputs only: whatever nproc was and in whatever order the workers
\* completed, the finished stream is the canonical one and the record total
\* is that of the units.
C2_OutputIndependentOfSchedule ==
    /\ pc = "writing" =>
           /\ Len(yielded) <= Len(CanonicalStream)
           /\ yielded = SubSeq(CanonicalStream, 1, Len(yielded))
    /\ pc = "done" => yielded = CanonicalStream
    /\ Completed => num_waves_total = TotalRecords

C2_Witness ==
    /\ pc = "done"
    /\ pool_size = 2
    /\ num_inputs = 3
    /\ Len(yielded) = 2
    /\ yielded[1].payload # <<>>
    /\ yielded[2].payload # <<>>
    /\ yielded[1].payload[1][1] # yielded[2].payload[1][1]

SomeUnitRaised == \E i \in Units : status[i] = "raised"

\* C3: once a unit's computation has raised, the run never completes
\* normally and write_records is never invoked; when process_cdip_station
\* raises, the error is the one a unit raised, whatever had been collected.
C3_FatalErrorPropagates ==
    SomeUnitRaised =>
        /\ write_calls = 0
        /\ yielded = <<>>
        /\ ~Completed
        /\ pc = "raised" =>
               /\ error.type = "UnitError"
               /\ error.unit \in Units
               /\ status[error.unit] = "raised"

C3_Witness ==
    /\ pc = "raised"
    /\ num_inputs = 3
    /\ error = UnitError(2)
    /\ status[1] = "terminated"
    /\ handled[3] = 1
    /\ result_files[3] # None

HandlingFrozenAfterAbort ==
    pc \in {"except", "raised"} =>
        /\ progress' = progress
        /\ num_waves_total' = num_waves_total
        /\ result_files' = result_files
        /\ handled' = handled

\* C4: in the pool branch, when the error is re-raised no pool process is
\* still running a unit, and from the moment the error is observed the
\* progress counter, the record total, the result storage and the number of
\* handled results no longer change.
C4_AbortStopsHandling ==
    /\ [](pc = "raised" /\ pool_size > 0 => Running = {})
    /\ [][HandlingFrozenAfterAbort]_vars

C4_Witness ==
    /\ pc = "raised"
    /\ pool_size = 2
    /\ num_inputs = 3
    /\ \E i \in Units : status[i] = "terminated"
    /\ \E i \in Units : status[i] = "returned" /\ handled[i] = 0

\* C5: no unit is computed or handled twice, and in a run that completes
\* without a fatal error every unit was computed exactly once and its result
\* handled exactly once, in the pool branch and in the sequential one.
C5_EachUnitOnce ==
    /\ \A i \in Units : computed[i] <= 1 /\ handled[i] <= 1
    /\ Completed => \A i \in Units : computed[i] = 1 /\ handled[i] = 1

C5_Witness ==
    /\ pc = "done"
    /\ pool_size = 2
    /\ num_inputs = 3
    /\ \A i \in Units : computed[i] = 1 /\ handled[i] = 1

RemoveAt(seq, i) == SubSeq(seq, 1, i - 1) \o SubSeq(seq, i + 1, Len(seq))

\* C6: for every skipped unit i, the finished stream is the one the merger
\* yields with unit i absent from the list, and the one it yields when unit
\* i has an empty chunk store (zero records).
C6_SkipLeavesOthersUnchanged ==
    pc = "done" =>
        \A i \in Units :
            Skipped(i) =>
                /\ yielded = GenerateResults(RemoveAt(result_files, i), disk)
                /\ yielded = GenerateResults(
                                 [result_files EXCEPT ![i] = OutfilePath(i)],
                                 [disk EXCEPT ![i] = <<>>])

C6_Witness ==
    /\ pc = "done"
    /\ num_inputs = 3
    /\ Skipped(2)
    /\ Produced(1)
    /\ Produced(3)
    /\ Len(yielded) = 2
    /\ yielded[2].wave_id_local = <<1>>

Started == pc # "start" /\ error \notin {AssertionError, ConfigError}

RequestedOrCores == IF requested.given THEN requested.n ELSE cpu_count

PoolTouched == \E i \in Units : status[i] \in {"queued", "running", "terminated"}

AllSkipped == num_inputs > 0 /\ \A i \in Units : Skipped(i)

\* C8: when every unit is skipped the run raises nothing, never reaches
\* write_records, and ends with the warning logged; a run that ends
\* normally with some unit not skipped has invoked write_records exactly
\* once and has not logged that warning; write_records is never invoked
\* twice.
C8_EmptyResult ==
    /\ write_calls <= 1
    /\ AllSkipped =>
           /\ write_calls = 0
           /\ error = NoError
           /\ pc \notin {"raised", "except", "writing"}
    /\ pc = "done" /\ AllSkipped => NoOutputWarning \in warnings
    /\ pc = "done" /\ ~AllSkipped =>
           /\ write_calls = 1
           /\ NoOutputWarning \notin warnings

C8_Witness ==
    /\ pc = "done"
    /\ num_inputs = 3
    /\ pool_size = 2
    /\ AllSkipped
    /\ NoOutputWarning \in warnings

\* C9: with an existing folder that holds no station file, the call raises
\* the configuration error as its first step: no pool, no computation, no
\* progress, no result storage, no output.
C9_NoInputsIsConfigError ==
    is_dir /\ num_inputs = 0 /\ pc # "start" =>
        /\ pc = "raised"
        /\ error = ConfigError
        /\ pool_size = 0
        /\ nproc = 0
        /\ progress = 0
        /\ result_files = <<>>
        /\ warnings = {}
        /\ write_calls = 0

C9_Witness ==
    /\ pc = "raised"
    /\ error = ConfigError
    /\ num_inputs = 0

ProgressNeverDecreases == progress' >= progress

\* C10 as stated: when the run has ended, the progress counter counts every
\* unit whose computation reached success or skip.
C10_Original ==
    pc \in {"raised", "done"} =>
        progress = Cardinality({i \in Units : status[i] = "returned"})

\* C10 amended: the progress counter never decreases; it counts, once each,
\* the units whose completion (success or skip) the scheduler has collected,
\* never a unit whose computation raised; after a run with no fatal error it
\* equals N.
C10_ProgressCounter ==
    /\ [](/\ \A i \in Units : handled[i] <= 1
          /\ progress = Cardinality({i \in Units : handled[i] = 1})
          /\ \A i \in Units : handled[i] = 1 => status[i] = "returned"
          /\ Completed => progress = num_inputs)
    /\ [][ProgressNeverDecreases]_vars

C10_Witness ==
    /\ pc = "raised"
    /\ pool_size = 2
    /\ progress = 1
    /\ \E i \in Units : Skipped(i) /\ handled[i] = 1
    /\ \E i \in Units : status[i] = "returned" /\ handled[i] = 0

\* reads of the chunk store and of the state summary of unit i made by
\* handle_result
HandlerReads(i) == IF Produced(i) THEN handled[i] ELSE 0

InDispatchLoop == pc \in {"dispatch", "sequential"}

C15_ReadOnlyFinishedStores ==
    /\ store_reads[0] = 0
    /\ state_reads[0] = 0
    /\ \A i \in Units :
           store_reads[i] > 0 \/ state_reads[i] > 0 => Produced(i)

C15_Witness ==
    /\ pc = "dispatch"
    /\ num_inputs = 3
    /\ pool_size = 2
    /\ store_reads[2] = 1
    /\ Skipped(1)
    /\ handled[1] = 1
    /\ status[3] = "running"

\* the files one compute_wave_records call is given to write
WriteTargets(args) == {args.outfile, args.statefile, args.qc_outfile}

\* the files the computation of unit i was given to write
UnitTargets(i) ==
    UNION {WriteTargets(compute_calls[i][k].args) :
               k \in 1..Len(compute_calls[i])}

\* C14: for any two distinct units, the files handed to their computations
\* as write targets (chunk store, state summary, QC output file) are
\* different: no file is a write target of two units.
C14_NoSharedWriteTarget ==
    \A i, j \in Units : i # j => UnitTargets(i) \cap UnitTargets(j) = {}

\* C18: every chunk the merger yields holds at least one record; a chunk of
\* size 0, empty mapping or zero-length fields, is never yielded.
C18_NoEmptyChunkYielded ==
    \A k \in 1..Len(yielded) : ChunkSize(yielded[k]) >= 1

StorageChangesOnlyAtHandledUnit ==
    IF Len(result_files') # Len(result_files)
    THEN pc = "start" /\ \A i \in 1..Len(result_files') : result_files'[i] = None
    ELSE \A i \in 1..Len(result_files) :
             result_files'[i] # result_files[i] =>
                 /\ handled'[i] = handled[i] + 1
                 /\ result_files[i] = None
                 /\ \A k \in 1..Len(result_files) :
                        k # i => result_files'[k] = result_files[k]

\* C19: at every point of the run, result_files[i] is None or unit i's own
\* chunk-store path, and it is the path exactly when unit i returned
\* paths and its result has been handled; entries of skipped, raised,
\* unfinished or not yet handled units are None; a step changes at most one
\* entry, the one of the unit whose completion it handles.
C19_ResultStorage ==
    /\ [](\A i \in 1..Len(result_files) :
              /\ result_files[i] \in {None, OutfilePath(i)}
              /\ result_files[i] # None <=> handled[i] = 1 /\ Produced(i))
    /\ [][StorageChangesOnlyAtHandledUnit]_vars

C19_Witness ==
    /\ pc = "dispatch"
    /\ num_inputs = 3
    /\ result_files[3] = OutfilePath(3)
    /\ result_files[1] = None
    /\ status[1] = "running"
    /\ Skipped(2)
    /\ handled[2] = 1

MergerLeavesResultsAlone ==
    pc = "writing" =>
        /\ result_files' = result_files
        /\ num_waves_total' = num_waves_total
        /\ disk' = disk

\* C20: the k-th yielded chunk is the k-th truthy stored chunk, units in
\* canonical order and chunks in store order, with every field other than
\* the identifier unchanged and the same size; while the merger runs, the
\* result storage, the record total and the stores do not change.
C20_MergerChangesOnlyIds ==
    /\ [](/\ Len(yielded) <= Len(CanonicalChunks)
          /\ \A k \in 1..Len(yielded) :
                 /\ yielded[k].payload = CanonicalChunks[k].payload
                 /\ yielded[k].empty = CanonicalChunks[k].empty
                 /\ ChunkSize(yielded[k]) = ChunkSize(CanonicalChunks[k])
          /\ pc = "done" /\ write_calls = 1 =>
                 Len(yielded) = Len(CanonicalChunks))
    /\ [][MergerLeavesResultsAlone]_vars

C20_Witness ==
    /\ pc = "done"
    /\ num_inputs = 2
    /\ Len(yielded) = 2
    /\ yielded[1].payload = <<<<1, 0>>>>
    /\ yielded[2].payload = <<<<2, 0>>>>
    /\ yielded[2].wave_id_local = <<1>>

\* the non-skipped units whose result has been handled
HandledProduced == {i \in Units : handled[i] = 1 /\ Produced(i)}

RECURSIVE SumOver(_, _)
SumOver(S, count) ==
    IF S = {} THEN 0
    ELSE LET x == CHOOSE y \in S : TRUE
         IN count[x] + SumOver(S \ {x}, count)

\* the sum of flag f over the state summaries of the non-skipped units
SummaryTotal(f) ==
    SumOver({i \in Units : Produced(i)},
            [i \in Units |-> statefiles[i][f]])

\* the sum of flag f over the logged flag lines
LoggedTotal(f) ==
    SumOver(log, [e \in log |-> e.flags[f]])

Finished(i) == status[i] \in {"returned", "raised"}

ComputeRaised(i) ==
    \E k \in 1..Len(compute_calls[i]) : compute_calls[i][k].raised

\* C16: a unit returns the None pair exactly when parsing its file raised
\* InvalidCDIPFile, and then compute_wave_records was not called; a unit
\* whose parsing raised anything else, or whose computation raised, has
\* raised and returned nothing, and when the run re-raises it is such a
\* unit's error; a unit that returned paths returned its own pair and
\* called compute_wave_records exactly once, with its own outfile and
\* statefile.
C16_SkipOnlyOnInvalidFile ==
    /\ \A i \in Units :
           /\ Skipped(i) <=> parsed[i] = "InvalidCDIPFile"
           /\ parsed[i] = "InvalidCDIPFile" => compute_calls[i] = <<>>
           /\ parsed[i] = "OtherError" =>
                  status[i] = "raised" /\ compute_calls[i] = <<>>
           /\ status[i] = "raised" <=>
                  parsed[i] = "OtherError" \/ ComputeRaised(i)
           /\ Produced(i) =>
                  /\ result[i] = <<OutfilePath(i), StatefilePath(i)>>
                  /\ Len(compute_calls[i]) = 1
                  /\ compute_calls[i][1].args.outfile = OutfilePath(i)
                  /\ compute_calls[i][1].args.statefile = StatefilePath(i)
                  /\ ~ComputeRaised(i)
    /\ pc = "raised" /\ error.type = "UnitError" =>
           status[error.unit] = "raised"

C16_Witness ==
    /\ pc = "raised"
    /\ num_inputs = 2
    /\ pool_size = 2
    /\ parsed[1] = "InvalidCDIPFile"
    /\ handled[1] = 1
    /\ parsed[2] = "OtherError"
    /\ error = UnitError(2)

\* the sizes of the chunks of a store, in store order
ChunkSizes(chunks) == [k \in 1..Len(chunks) |-> ChunkSize(chunks[k])]

NoneEntries == {i \in 1..Len(result_files) : result_files[i] = None}

\* the run of three files with chunk sizes [2,0,3], skipped, [1]
ScenarioRun ==
    /\ num_inputs = 3
    /\ Produced(1) /\ ChunkSizes(disk[1]) = <<2, 0, 3>>
    /\ Skipped(2)
    /\ Produced(3) /\ ChunkSizes(disk[3]) = <<1>>

\* C12: when a run has ended without a fatal error, num_waves_total equals
\* the final current_wave_id, and the entries left None in result_files are
\* as many as the units that returned the None pair; the run of units
\* [2,0,3], skipped, [1] ends with 6 records, identifiers 0..5 in order, and
\* 1 skip.
C12_TotalsAgree ==
    /\ pc = "done" => num_waves_total = gen.current_wave_id
    /\ Completed =>
           Cardinality(NoneEntries) =
               Cardinality({i \in Units : Skipped(i)})
    /\ pc = "done" /\ ScenarioRun =>
           /\ num_waves_total = 6
           /\ YieldedIds = <<0, 1, 2, 3, 4, 5>>
           /\ Cardinality(NoneEntries) = 1

C12_Witness ==
    /\ pc = "done"
    /\ pool_size = 2
    /\ ScenarioRun
    /\ gen.current_wave_id = 6
    /\ Len(yielded) = 4

Ended == pc \in {"done", "raised"}

\* C17: when every computation that starts returns or raises and steps are
\* scheduled fairly, process_cdip_station returns or raises; and it ends
\* only that way: it passes the dispatch loop only when every unit's
\* computation has returned, and it raises a unit's error only when a unit
\* has raised, so a unit that never completes, with no unit raising, keeps
\* the batch from ever finishing.
C17_EndsOnlyWhenUnitsEnd ==
    /\ <>Ended
    /\ [](Completed => \A i \in Units : status[i] = "returned")
    /\ [](pc \in {"except", "raised"} /\ error.type = "UnitError" =>
              SomeUnitRaised)

C17_Witness ==
    /\ pc = "done"
    /\ num_inputs = 2
    /\ pool_size = 2
    /\ write_calls = 1
    /\ \A i \in Units : status[i] = "returned" /\ computed[i] = 1

====
